---------------------------- MODULE Spec2Model ----------------------------
(***************************************************************************)
(* Model of sway-core/src/engine_threading.rs: the Engines aggregate with  *)
(* its module eviction hook, the context-parameterised protocols           *)
(* (DisplayWithEngines, DebugWithEngines, HashWithEngines,                 *)
(* PartialEqWithEngines, OrdWithEngines), their composite rules for &T,    *)
(* Option<T>, Box<T>, [T] and Vec<T>, the WithEngines wrapper and          *)
(* make_hasher.                                                            *)
(***************************************************************************)
EXTENDS Integers, Sequences, FiniteSets, TLC

(***************************************************************************)
(* Bounds of the model.                                                    *)
(***************************************************************************)
\* registrations made in one session, over the four tables together
MaxInserts == 3
\* compilation units (sway_types::ModuleId values) in play
NumUnits == 2
\* longest slice or vector handed to a protocol
MaxLen == 3
\* digests a hasher can produce (2^64 in the program)
DigestSpace == 5

VARIABLES
    type_engine,    \* Engines.type_engine: slab of slots, TypeId = index
    decl_engine,    \* Engines.decl_engine: slab of slots, DeclId = index
    query_engine,   \* Engines.query_engine: slab of slots
    source_engine,  \* Engines.source_engine: slab of slots
    impl_T,         \* the element type's implementations of the protocols
    hash_builder,   \* the BuildHasher handed to make_hasher
    shape,          \* the type of the two things: constructors, outermost first
    lhs,            \* WithEngines { thing, engines }: the receiver
    rhs,            \* WithEngines { thing, engines }: the other operand
    last,           \* the call made last: [op |-> ..., ...]
    result          \* what that call returned

engine_vars == <<type_engine, decl_engine, query_engine, source_engine>>

input_vars == <<impl_T, hash_builder, shape, lhs, rhs>>

vars == <<engine_vars, input_vars, last, result>>

(***************************************************************************)
(* The interning subsystems.  Their code is not part of this file; they    *)
(* are used through register, lookup and clear_module only.  A table is a  *)
(* slab: a sequence of slots, a slot holding an entry [unit, value] or     *)
(* Vacant once evicted; an identifier is an index of the slab.             *)
(***************************************************************************)
ModuleId == 1 .. NumUnits

Payload == {"p", "q"}

Vacant == [unit |-> 0, value |-> "vacant"]

Entry(module_id, value) == [unit |-> module_id, value |-> value]

\* register: the slab with a new entry appended; its identifier is the new length
Slab_insert(slab, module_id, value) == Append(slab, Entry(module_id, value))

\* lookup by identifier
Resolvable(slab, id) == id \in DOMAIN slab /\ slab[id] # Vacant

\* the per-subsystem eviction primitive: every entry of module_id is discarded
Slab_clear_module(slab, module_id) ==
    [i \in DOMAIN slab |-> IF slab[i].unit = module_id THEN Vacant ELSE slab[i]]

TypeEngine_clear_module(slab, module_id) == Slab_clear_module(slab, module_id)

DeclEngine_clear_module(slab, module_id) == Slab_clear_module(slab, module_id)

(***************************************************************************)
(* Engines (lines 9-53).                                                   *)
(***************************************************************************)
\* the aggregate as a value: the four subsystems it owns
Engines ==
    [type_engine |-> type_engine, decl_engine |-> decl_engine,
     query_engine |-> query_engine, source_engine |-> source_engine]

\* faulty variant: the declaration engine is left out
Engines_clear_module_types_only(self, module_id) ==
    [self EXCEPT !.type_engine = TypeEngine_clear_module(@, module_id)]

\* faulty variant: the type engine is emptied instead of evicted from
Engines_clear_module_reset(self, module_id) ==
    [self EXCEPT
        !.type_engine = <<>>,
        !.decl_engine = DeclEngine_clear_module(@, module_id)]

\* faulty variant: the other two subsystems are evicted from as well
Engines_clear_module_all_tables(self, module_id) ==
    [type_engine |-> TypeEngine_clear_module(self.type_engine, module_id),
     decl_engine |-> DeclEngine_clear_module(self.decl_engine, module_id),
     query_engine |-> Slab_clear_module(self.query_engine, module_id),
     source_engine |-> Slab_clear_module(self.source_engine, module_id)]

\* Engines::clear_module: the type engine, then the declaration engine
Engines_clear_module(self, module_id) ==
    [self EXCEPT
        !.type_engine = TypeEngine_clear_module(@, module_id),
        !.decl_engine = DeclEngine_clear_module(@, module_id)]

(***************************************************************************)
(* Values threaded through the protocols.  An element of type T is an      *)
(* entity handle; what it denotes is decided by the element type's own     *)
(* protocol implementations under a context.  Two aggregates coexist.      *)
(***************************************************************************)
Elem == {1, 2}

Ctx == {"c1", "c2"}

Ordering == {"Less", "Equal", "Greater"}

T(x) == [tag |-> "T", v |-> x]

Ref(t) == [tag |-> "Ref", v |-> t]

Box(t) == [tag |-> "Box", v |-> t]

Some(t) == [tag |-> "Some", v |-> t]

None == [tag |-> "None", v |-> "none"]

Slice(items) == [tag |-> "Slice", v |-> items]

Vec(items) == [tag |-> "Vec", v |-> items]

SeqsUpTo(S, n) == UNION {[1 .. k -> S] : k \in 0 .. n}

\* the values of a type, given as its constructors from the outermost inwards
RECURSIVE Values(_)
Values(sh) ==
    IF sh = <<>> THEN {T(x) : x \in Elem}
    ELSE LET inner == Values(Tail(sh))
         IN  CASE Head(sh) = "Ref" -> {Ref(t) : t \in inner}
               [] Head(sh) = "Box" -> {Box(t) : t \in inner}
               [] Head(sh) = "Option" -> {None} \cup {Some(t) : t \in inner}
               [] Head(sh) = "Slice" -> {Slice(q) : q \in SeqsUpTo(inner, MaxLen)}
               [] Head(sh) = "Vec" -> {Vec(q) : q \in SeqsUpTo(inner, MaxLen)}

Sized(sh) == IF sh = <<>> THEN TRUE ELSE Head(sh) # "Slice"

\* whether the impls of the file give the type sh the trait
RECURSIVE Implements(_, _)
Implements(trait, sh) ==
    IF sh = <<>> THEN TRUE
    ELSE /\ Implements(trait, Tail(sh))
         /\ CASE Head(sh) = "Ref" ->
                    IF trait \in {"Hash", "PartialEq", "Ord"} THEN TRUE
                    ELSE Sized(Tail(sh))
              [] Head(sh) \in {"Option", "Box"} -> Sized(Tail(sh))
              [] Head(sh) = "Slice" ->
                    trait \in {"Hash", "PartialEq", "Ord"} /\ Sized(Tail(sh))
              [] Head(sh) = "Vec" ->
                    trait \in {"Display", "Debug"} /\ Sized(Tail(sh))

Min(S) == CHOOSE i \in S : \A j \in S : i <= j

\* Iterator::zip: pairs up to the shorter length
Zip(s, t) ==
    [i \in 1 .. (IF Len(s) <= Len(t) THEN Len(s) ELSE Len(t)) |-> <<s[i], t[i]>>]

\* usize::cmp
usize_cmp(m, n) == IF m < n THEN "Less" ELSE IF m = n THEN "Equal" ELSE "Greater"

(***************************************************************************)
(* PartialEqWithEngines (lines 259-261) and its impls.                     *)
(***************************************************************************)
RECURSIVE PartialEqWithEngines_eq(_, _, _)

\* the element type's own impl
T_eq(self, other, engines) == impl_T.eq[engines][<<self.v, other.v>>]

\* impl PartialEqWithEngines for &T
Ref_eq(self, other, engines) == PartialEqWithEngines_eq(self.v, other.v, engines)

\* faulty variant: the (None, None) arm is missing
Option_eq_no_none_arm(self, other, engines) ==
    IF self.tag = "Some" /\ other.tag = "Some"
    THEN PartialEqWithEngines_eq(self.v, other.v, engines)
    ELSE FALSE

\* impl PartialEqWithEngines for Option<T>
Option_eq(self, other, engines) ==
    CASE self.tag = "None" /\ other.tag = "None" -> TRUE
      [] self.tag = "Some" /\ other.tag = "Some" ->
            PartialEqWithEngines_eq(self.v, other.v, engines)
      [] OTHER -> FALSE

\* impl PartialEqWithEngines for Box<T>
Box_eq(self, other, engines) == PartialEqWithEngines_eq(self.v, other.v, engines)

\* faulty variant: the lengths are not compared
Slice_eq_no_len(self, other, engines) ==
    \A i \in DOMAIN Zip(self.v, other.v) :
        PartialEqWithEngines_eq(Zip(self.v, other.v)[i][1],
                                Zip(self.v, other.v)[i][2], engines)

\* impl PartialEqWithEngines for [T]
Slice_eq(self, other, engines) ==
    /\ Len(self.v) = Len(other.v)
    /\ \A i \in DOMAIN Zip(self.v, other.v) :
          PartialEqWithEngines_eq(Zip(self.v, other.v)[i][1],
                                  Zip(self.v, other.v)[i][2], engines)

\* the impl the type of self selects
PartialEqWithEngines_eq(self, other, engines) ==
    CASE self.tag = "T" -> T_eq(self, other, engines)
      [] self.tag = "Ref" -> Ref_eq(self, other, engines)
      [] self.tag \in {"Some", "None"} -> Option_eq(self, other, engines)
      [] self.tag = "Box" -> Box_eq(self, other, engines)
      [] self.tag = "Slice" -> Slice_eq(self, other, engines)

(***************************************************************************)
(* OrdWithEngines (lines 263-265) and its impls.                           *)
(***************************************************************************)
RECURSIVE OrdWithEngines_cmp(_, _, _)

T_cmp(self, other, engines) == impl_T.cmp[engines][<<self.v, other.v>>]

\* impl OrdWithEngines for &T
Ref_cmp(self, other, engines) == OrdWithEngines_cmp(self.v, other.v, engines)

\* faulty variant: the absent value sorts first
Option_cmp_none_first(self, other, engines) ==
    CASE self.tag = "Some" /\ other.tag = "Some" ->
            OrdWithEngines_cmp(self.v, other.v, engines)
      [] self.tag = "Some" /\ other.tag = "None" -> "Greater"
      [] self.tag = "None" /\ other.tag = "Some" -> "Less"
      [] self.tag = "None" /\ other.tag = "None" -> "Equal"

\* faulty variant: the two None arms merged into (None, _) => Greater
Option_cmp_none_greater(self, other, engines) ==
    CASE self.tag = "Some" /\ other.tag = "Some" ->
            OrdWithEngines_cmp(self.v, other.v, engines)
      [] self.tag = "Some" /\ other.tag = "None" -> "Less"
      [] self.tag = "None" -> "Greater"

\* impl OrdWithEngines for Option<T>
Option_cmp(self, other, engines) ==
    CASE self.tag = "Some" /\ other.tag = "Some" ->
            OrdWithEngines_cmp(self.v, other.v, engines)
      [] self.tag = "Some" /\ other.tag = "None" -> "Less"
      [] self.tag = "None" /\ other.tag = "Some" -> "Greater"
      [] self.tag = "None" /\ other.tag = "None" -> "Equal"

\* impl OrdWithEngines for Box<T>
Box_cmp(self, other, engines) == OrdWithEngines_cmp(self.v, other.v, engines)

\* faulty variant: slices of different lengths are ordered by length alone
Slice_cmp_len_first(self, other, engines) ==
    LET mapped == [i \in DOMAIN Zip(self.v, other.v) |->
                      OrdWithEngines_cmp(Zip(self.v, other.v)[i][1],
                                         Zip(self.v, other.v)[i][2], engines)]
        ne == {i \in DOMAIN mapped : mapped[i] # "Equal"}
    IN  IF Len(self.v) # Len(other.v) \/ ne = {}
        THEN usize_cmp(Len(self.v), Len(other.v))
        ELSE mapped[Min(ne)]

\* impl OrdWithEngines for [T]: zip, map, find(is_ne), unwrap_or_else(len cmp)
Slice_cmp(self, other, engines) ==
    LET mapped == [i \in DOMAIN Zip(self.v, other.v) |->
                      OrdWithEngines_cmp(Zip(self.v, other.v)[i][1],
                                         Zip(self.v, other.v)[i][2], engines)]
        ne == {i \in DOMAIN mapped : mapped[i] # "Equal"}
    IN  IF ne # {} THEN mapped[Min(ne)]
        ELSE usize_cmp(Len(self.v), Len(other.v))

OrdWithEngines_cmp(self, other, engines) ==
    CASE self.tag = "T" -> T_cmp(self, other, engines)
      [] self.tag = "Ref" -> Ref_cmp(self, other, engines)
      [] self.tag \in {"Some", "None"} -> Option_cmp(self, other, engines)
      [] self.tag = "Box" -> Box_cmp(self, other, engines)
      [] self.tag = "Slice" -> Slice_cmp(self, other, engines)

(***************************************************************************)
(* std::hash::Hasher, as far as the file uses it: a hasher accumulates the *)
(* bytes written to it and finish() digests them with the builder's seed.  *)
(***************************************************************************)
BuildHasher_build_hasher(builder) == [seed |-> builder, bytes |-> <<>>]

Hasher_write(state, bytes) == [state EXCEPT !.bytes = @ \o bytes]

Hasher_write_u8(state, byte) == Hasher_write(state, <<byte>>)

RECURSIVE Digest(_, _)
Digest(h, bytes) ==
    IF bytes = <<>> THEN h
    ELSE Digest((3 * h + Head(bytes) + 1) % DigestSpace, Tail(bytes))

Hasher_finish(state) == Digest(state.seed % DigestSpace, state.bytes)

(***************************************************************************)
(* HashWithEngines (lines 224-226) and its impls.                          *)
(***************************************************************************)
RECURSIVE HashWithEngines_hash(_, _, _)

T_hash(self, state, engines) == Hasher_write(state, impl_T.hash[engines][self.v])

\* faulty variant: a referenced handle is hashed as it is, not through the context
Ref_hash_raw_handle(self, state, engines) ==
    IF self.v.tag = "T" THEN Hasher_write_u8(state, self.v.v)
    ELSE HashWithEngines_hash(self.v, state, engines)

\* impl HashWithEngines for &T
Ref_hash(self, state, engines) == HashWithEngines_hash(self.v, state, engines)

\* impl HashWithEngines for Option<T>
Option_hash(self, state, engines) ==
    CASE self.tag = "None" -> Hasher_write_u8(state, 0)
      [] self.tag = "Some" -> HashWithEngines_hash(self.v, state, engines)

\* impl HashWithEngines for [T]: the elements in order, from the first
RECURSIVE Slice_hash_from(_, _, _, _)
Slice_hash_from(items, i, state, engines) ==
    IF i > Len(items) THEN state
    ELSE Slice_hash_from(items, i + 1,
                         HashWithEngines_hash(items[i], state, engines), engines)

Slice_hash(self, state, engines) == Slice_hash_from(self.v, 1, state, engines)

\* impl HashWithEngines for Box<T>
Box_hash(self, state, engines) == HashWithEngines_hash(self.v, state, engines)

HashWithEngines_hash(self, state, engines) ==
    CASE self.tag = "T" -> T_hash(self, state, engines)
      [] self.tag = "Ref" -> Ref_hash(self, state, engines)
      [] self.tag \in {"Some", "None"} -> Option_hash(self, state, engines)
      [] self.tag = "Slice" -> Slice_hash(self, state, engines)
      [] self.tag = "Box" -> Box_hash(self, state, engines)

\* make_hasher(hash_builder, engines), applied to key
make_hasher(builder, engines, key) ==
    Hasher_finish(HashWithEngines_hash(key, BuildHasher_build_hasher(builder), engines))

(***************************************************************************)
(* WithEngines (lines 92-102) and Engines::help_out (lines 55-61).  A      *)
(* reference to an aggregate is the aggregate's identity.                  *)
(***************************************************************************)
WithEngines_new(thing, engines) == [thing |-> thing, engines |-> engines]

Engines_help_out(self, thing) == [thing |-> thing, engines |-> self]

(***************************************************************************)
(* DisplayWithEngines (lines 150-185) and DebugWithEngines (lines          *)
(* 187-222).  A formatter is the text written so far, a sequence of        *)
(* fragments.                                                              *)
(***************************************************************************)
RECURSIVE DisplayWithEngines_fmt(_, _, _)
RECURSIVE DebugWithEngines_fmt(_, _, _)
RECURSIVE Join(_, _)

\* [String]::join
Join(texts, sep) ==
    IF texts = <<>> THEN <<>>
    ELSE IF Len(texts) = 1 THEN texts[1]
    ELSE texts[1] \o <<sep>> \o Join(Tail(texts), sep)

\* impl fmt::Display for WithEngines
WithEngines_Display_fmt(self, f) == DisplayWithEngines_fmt(self.thing, f, self.engines)

\* impl fmt::Debug for WithEngines
WithEngines_Debug_fmt(self, f) == DebugWithEngines_fmt(self.thing, f, self.engines)

\* format!("{}", w) and format!("{:?}", w): the text of w in a fresh String
format_display(w) == WithEngines_Display_fmt(w, <<>>)

format_debug(w) == WithEngines_Debug_fmt(w, <<>>)

T_display_fmt(self, f, engines) == f \o <<impl_T.display[engines][self.v]>>

Ref_display_fmt(self, f, engines) == DisplayWithEngines_fmt(self.v, f, engines)

Option_display_fmt(self, f, engines) ==
    CASE self.tag = "None" -> f
      [] self.tag = "Some" -> DisplayWithEngines_fmt(self.v, f, engines)

Box_display_fmt(self, f, engines) == DisplayWithEngines_fmt(self.v, f, engines)

Vec_display_fmt(self, f, engines) ==
    LET text == Join([i \in DOMAIN self.v |->
                         format_display(Engines_help_out(engines, Ref(self.v[i])))],
                     ", ")
    IN  f \o text

DisplayWithEngines_fmt(self, f, engines) ==
    CASE self.tag = "T" -> T_display_fmt(self, f, engines)
      [] self.tag = "Ref" -> Ref_display_fmt(self, f, engines)
      [] self.tag \in {"Some", "None"} -> Option_display_fmt(self, f, engines)
      [] self.tag = "Box" -> Box_display_fmt(self, f, engines)
      [] self.tag = "Vec" -> Vec_display_fmt(self, f, engines)

T_debug_fmt(self, f, engines) == f \o <<impl_T.debug[engines][self.v]>>

Ref_debug_fmt(self, f, engines) == DebugWithEngines_fmt(self.v, f, engines)

Option_debug_fmt(self, f, engines) ==
    CASE self.tag = "None" -> f
      [] self.tag = "Some" -> DebugWithEngines_fmt(self.v, f, engines)

Box_debug_fmt(self, f, engines) == DebugWithEngines_fmt(self.v, f, engines)

Vec_debug_fmt(self, f, engines) ==
    LET text == Join([i \in DOMAIN self.v |->
                         format_debug(Engines_help_out(engines, Ref(self.v[i])))],
                     ", ")
    IN  f \o text

DebugWithEngines_fmt(self, f, engines) ==
    CASE self.tag = "T" -> T_debug_fmt(self, f, engines)
      [] self.tag = "Ref" -> Ref_debug_fmt(self, f, engines)
      [] self.tag \in {"Some", "None"} -> Option_debug_fmt(self, f, engines)
      [] self.tag = "Box" -> Box_debug_fmt(self, f, engines)
      [] self.tag = "Vec" -> Vec_debug_fmt(self, f, engines)

(***************************************************************************)
(* The standard traits of WithEngines (lines 118-148).                     *)
(***************************************************************************)
\* impl Hash for WithEngines
WithEngines_Hash_hash(self, state) == HashWithEngines_hash(self.thing, state, self.engines)

\* impl PartialEq for WithEngines
WithEngines_PartialEq_eq(self, other) ==
    PartialEqWithEngines_eq(self.thing, other.thing, self.engines)

\* faulty variant: the operands are swapped
WithEngines_Ord_cmp_reversed(self, other) ==
    OrdWithEngines_cmp(other.thing, self.thing, self.engines)

\* impl Ord for WithEngines
WithEngines_Ord_cmp(self, other) ==
    OrdWithEngines_cmp(self.thing, other.thing, self.engines)

\* impl PartialOrd for WithEngines
WithEngines_PartialOrd_partial_cmp(self, other) ==
    Some(OrdWithEngines_cmp(self.thing, other.thing, self.engines))

(***************************************************************************)
(* The inputs of the protocol calls.                                       *)
(***************************************************************************)
\* the types the calls are made at
Shapes ==
    {<<>>, <<"Ref">>, <<"Box">>, <<"Option">>, <<"Slice">>, <<"Vec">>,
     <<"Option", "Box">>, <<"Ref", "Slice">>, <<"Option", "Ref", "Slice">>}

\* sequences of options, for the equivalence and formatting calls
DeepShapes == {<<"Slice", "Option">>, <<"Vec", "Option">>}

ShapesWith(traits) ==
    {sh \in Shapes \cup DeepShapes : \A tr \in traits : Implements(tr, sh)}

\* implementations an element type can give: any table at all
EqTables == [Elem \X Elem -> BOOLEAN]

CmpTables == [Elem \X Elem -> Ordering]

HashTables == [Elem -> {<<0>>, <<1, 0>>}]

\* implementations that resolve each handle to an entity and compare, order and
\* hash the entities
Resolutions == [Elem -> Elem]

EqOf(r) == [p \in Elem \X Elem |-> r[p[1]] = r[p[2]]]

CmpOf(r) == [p \in Elem \X Elem |-> usize_cmp(r[p[1]], r[p[2]])]

HashOf(r) == [x \in Elem |-> <<r[x]>>]

\* an element type that compares, orders and hashes the handles themselves
IdEq == [p \in Elem \X Elem |-> p[1] = p[2]]

IdCmp == [p \in Elem \X Elem |-> usize_cmp(p[1], p[2])]

IdHash == [x \in Elem |-> <<x>>]

DisplayText ==
    [c \in Ctx |-> [x \in Elem |->
        IF c = "c1" THEN (IF x = 1 THEN "T1" ELSE "T2") ELSE "u64"]]

DebugText ==
    [c \in Ctx |-> [x \in Elem |->
        IF c = "c1" THEN (IF x = 1 THEN "TypeId(1)" ELSE "TypeId(2)")
        ELSE (IF x = 1 THEN "UnsignedInteger(1)" ELSE "UnsignedInteger(2)")]]

\* under c1 no two handles denote the same entity; under c2 the tables decide
Impl(eq, cmp, hash) ==
    [eq |-> [c \in Ctx |-> IF c = "c1" THEN IdEq ELSE eq],
     cmp |-> [c \in Ctx |-> IF c = "c1" THEN IdCmp ELSE cmp],
     hash |-> [c \in Ctx |-> IF c = "c1" THEN IdHash ELSE hash],
     display |-> DisplayText,
     debug |-> DebugText]

NoCall == [op |-> "new", table |-> "", unit |-> 0]

Call(op) == [op |-> op, table |-> "", unit |-> 0]

\* Engines::default(): four empty subsystems
EnginesInit ==
    /\ type_engine = <<>>
    /\ decl_engine = <<>>
    /\ query_engine = <<>>
    /\ source_engine = <<>>

\* two things of one of the types shapes, each held with an aggregate out of
\* ctxs; a type that only has the formatting traits has no use of a second thing
InitThings(shapes, ctxs) ==
    /\ shape \in shapes
    /\ \E x \in Values(shape), c1 \in ctxs, c2 \in ctxs :
          \E y \in IF Implements("PartialEq", shape) THEN Values(shape) ELSE {x} :
              /\ lhs = WithEngines_new(x, c1)
              /\ rhs = WithEngines_new(y, c2)
    /\ last = NoCall
    /\ result = "none"

(***************************************************************************)
(* Calls of the contextual protocols on the two things.                    *)
(***************************************************************************)
\* lhs.thing.eq(&rhs.thing, engines)
CallEq ==
    /\ shape \in ShapesWith({"PartialEq"})
    /\ last' = Call("eq")
    /\ result' = PartialEqWithEngines_eq(lhs.thing, rhs.thing, lhs.engines)
    /\ UNCHANGED <<engine_vars, input_vars>>

\* lhs.thing.cmp(&rhs.thing, engines)
CallCmp ==
    /\ shape \in ShapesWith({"Ord"})
    /\ last' = Call("cmp")
    /\ result' = OrdWithEngines_cmp(lhs.thing, rhs.thing, lhs.engines)
    /\ UNCHANGED <<engine_vars, input_vars>>

\* both things hashed by the function make_hasher(hash_builder, engines) returns
CallHash ==
    /\ shape \in ShapesWith({"Hash"})
    /\ last' = Call("hash")
    /\ result' =
          [lhs_bytes |-> HashWithEngines_hash(lhs.thing,
                             BuildHasher_build_hasher(hash_builder), lhs.engines).bytes,
           rhs_bytes |-> HashWithEngines_hash(rhs.thing,
                             BuildHasher_build_hasher(hash_builder), lhs.engines).bytes,
           lhs_digest |-> make_hasher(hash_builder, lhs.engines, lhs.thing),
           rhs_digest |-> make_hasher(hash_builder, lhs.engines, rhs.thing)]
    /\ UNCHANGED <<engine_vars, input_vars>>

(***************************************************************************)
(* Uses of the wrapped things through the standard traits.                 *)
(***************************************************************************)
\* format!("{}", lhs)
WrapDisplay ==
    /\ shape \in ShapesWith({"Display"})
    /\ last' = Call("Display::fmt")
    /\ result' = WithEngines_Display_fmt(lhs, <<>>)
    /\ UNCHANGED <<engine_vars, input_vars>>

\* format!("{:?}", lhs)
WrapDebug ==
    /\ shape \in ShapesWith({"Debug"})
    /\ last' = Call("Debug::fmt")
    /\ result' = WithEngines_Debug_fmt(lhs, <<>>)
    /\ UNCHANGED <<engine_vars, input_vars>>

\* lhs.hash(&mut state), state fresh from hash_builder
WrapHash ==
    /\ shape \in ShapesWith({"Hash"})
    /\ last' = Call("Hash::hash")
    /\ result' = WithEngines_Hash_hash(lhs, BuildHasher_build_hasher(hash_builder))
    /\ UNCHANGED <<engine_vars, input_vars>>

\* lhs == rhs
WrapEq ==
    /\ shape \in ShapesWith({"PartialEq"})
    /\ last' = Call("PartialEq::eq")
    /\ result' = WithEngines_PartialEq_eq(lhs, rhs)
    /\ UNCHANGED <<engine_vars, input_vars>>

\* lhs.partial_cmp(&rhs)
WrapPartialCmp ==
    /\ shape \in ShapesWith({"Ord", "PartialEq"})
    /\ last' = Call("PartialOrd::partial_cmp")
    /\ result' = WithEngines_PartialOrd_partial_cmp(lhs, rhs)
    /\ UNCHANGED <<engine_vars, input_vars>>

\* lhs.cmp(&rhs)
WrapCmp ==
    /\ shape \in ShapesWith({"Ord", "PartialEq"})
    /\ last' = Call("Ord::cmp")
    /\ result' = WithEngines_Ord_cmp(lhs, rhs)
    /\ UNCHANGED <<engine_vars, input_vars>>

(***************************************************************************)
(* The aggregate's session: registrations and evictions.                   *)
(***************************************************************************)
Inserts ==
    Len(type_engine) + Len(decl_engine) + Len(query_engine) + Len(source_engine)

SetEngines(e) ==
    /\ type_engine' = e.type_engine
    /\ decl_engine' = e.decl_engine
    /\ query_engine' = e.query_engine
    /\ source_engine' = e.source_engine

\* a pass registers an entry of a unit in one of the subsystems
Register ==
    /\ Inserts < MaxInserts
    /\ \E t \in {"type_engine", "decl_engine", "query_engine", "source_engine"},
          u \in ModuleId, v \in Payload :
          /\ SetEngines([Engines EXCEPT ![t] = Slab_insert(@, u, v)])
          /\ last' = [op |-> "register", table |-> t, unit |-> u]
    /\ UNCHANGED <<input_vars, result>>

\* the owner of the aggregate evicts a unit
ClearModule ==
    /\ \E u \in ModuleId :
          /\ SetEngines(Engines_clear_module(Engines, u))
          /\ last' = [op |-> "clear_module", table |-> "", unit |-> u]
    /\ UNCHANGED <<input_vars, result>>

(***************************************************************************)
(* Specifications.                                                         *)
(***************************************************************************)
\* the session of one aggregate
Init ==
    /\ EnginesInit
    /\ impl_T = Impl(IdEq, IdCmp, IdHash)
    /\ hash_builder = 0
    /\ shape = <<>>
    /\ lhs = WithEngines_new(T(1), "c1")
    /\ rhs = WithEngines_new(T(1), "c1")
    /\ last = NoCall
    /\ result = "none"

Next == Register \/ ClearModule

Spec == Init /\ [][Next]_vars

\* equivalence, over every implementation of it on the element type
InitEq ==
    /\ EnginesInit
    /\ \E e \in EqTables : impl_T = Impl(e, IdCmp, IdHash)
    /\ hash_builder = 0
    /\ InitThings(ShapesWith({"PartialEq"}), {"c2"})

NextEq == CallEq

SpecEq == InitEq /\ [][NextEq]_vars

\* ordering, over every implementation of it on the element type
InitCmp ==
    /\ EnginesInit
    /\ \E o \in CmpTables : impl_T = Impl(IdEq, o, IdHash)
    /\ hash_builder = 0
    /\ InitThings(Shapes \cap ShapesWith({"Ord"}), {"c2"})

NextCmp == CallCmp

SpecCmp == InitCmp /\ [][NextCmp]_vars

\* ordering against equivalence
InitOrd ==
    /\ EnginesInit
    /\ \E e \in EqTables, r \in Resolutions : impl_T = Impl(e, CmpOf(r), IdHash)
    /\ hash_builder = 0
    /\ InitThings(Shapes \cap ShapesWith({"PartialEq", "Ord"}), {"c2"})

NextOrd == CallCmp

SpecOrd == InitOrd /\ [][NextOrd]_vars

\* hashing against equivalence
InitHash ==
    /\ EnginesInit
    /\ \E e \in EqTables, h \in HashTables : impl_T = Impl(e, IdCmp, h)
    /\ hash_builder = 1
    /\ InitThings(Shapes \cap ShapesWith({"PartialEq", "Hash"}), {"c2"})

NextHash == CallHash

SpecHash == InitHash /\ [][NextHash]_vars

\* wrapped things, each wrapper holding either aggregate
InitWrap ==
    /\ EnginesInit
    /\ \E r \in Resolutions : impl_T = Impl(EqOf(r), CmpOf(r), HashOf(r))
    /\ hash_builder = 1
    /\ InitThings(Shapes \cup {<<"Vec", "Option">>}, Ctx)

NextWrap ==
    WrapDisplay \/ WrapDebug \/ WrapHash \/ WrapEq \/ WrapPartialCmp \/ WrapCmp

SpecWrap == InitWrap /\ [][NextWrap]_vars

(***************************************************************************)
(* Properties.                                                             *)
(***************************************************************************)
Tables == {"type_engine", "decl_engine", "query_engine", "source_engine"}

\* the entries of slab a call clear_module(u) leading to slab2 must have discarded,
\* and those it must have kept as they were
Discarded(slab, slab2, u) ==
    \A id \in DOMAIN slab :
        Resolvable(slab, id) /\ slab[id].unit = u => ~Resolvable(slab2, id)

Kept(slab, slab2, u) ==
    \A id \in DOMAIN slab :
        Resolvable(slab, id) /\ slab[id].unit # u =>
            Resolvable(slab2, id) /\ slab2[id] = slab[id]

HasEntryOf(slab, u) == \E id \in DOMAIN slab : Resolvable(slab, id) /\ slab[id].unit = u

HasVacant(slab) == \E id \in DOMAIN slab : slab[id] = Vacant

\* C1: a call clear_module(U1) leaves no entry of the type table or of the
\* declaration table registered under U1 resolvable, and leaves every entry of
\* those tables registered under another unit resolvable, to the same value.
C1_EvictionLocality ==
    [][last'.op = "clear_module" =>
          /\ Discarded(type_engine, type_engine', last'.unit)
          /\ Discarded(decl_engine, decl_engine', last'.unit)
          /\ Kept(type_engine, type_engine', last'.unit)
          /\ Kept(decl_engine, decl_engine', last'.unit)]_vars

\* an eviction that discarded entries of both tables while the type table keeps
\* an entry of the other unit
C1_Witness ==
    /\ last.op = "clear_module"
    /\ HasVacant(type_engine)
    /\ HasVacant(decl_engine)
    /\ \E u \in ModuleId \ {last.unit} : HasEntryOf(type_engine, u)

\* C2: clear_module(U) for a unit U with no entry in any table changes nothing
\* of the aggregate, and a second clear_module(U) right after a first changes
\* nothing either.
C2_ClearModuleIdempotent ==
    [][last'.op = "clear_module" =>
          /\ (\A t \in Tables : ~HasEntryOf(Engines[t], last'.unit))
                => UNCHANGED engine_vars
          /\ (last.op = "clear_module" /\ last.unit = last'.unit)
                => UNCHANGED engine_vars]_vars

\* an eviction of a unit without entries, in a session that has entries of another
\* unit and never evicted any
C2_Witness ==
    /\ last.op = "clear_module"
    /\ \A t \in Tables : ~HasEntryOf(Engines[t], last.unit) /\ ~HasVacant(Engines[t])
    /\ Len(type_engine) > 0
    /\ Len(decl_engine) > 0

\* C10: clear_module leaves the query-result table and the source-location table
\* as they were.
C10_ClearModuleFrame ==
    [][last'.op = "clear_module" => UNCHANGED <<query_engine, source_engine>>]_vars

\* after an eviction, both tables still hold an entry of the evicted unit
C10_Witness ==
    /\ last.op = "clear_module"
    /\ HasEntryOf(query_engine, last.unit)
    /\ HasEntryOf(source_engine, last.unit)

\* the operands of the protocol calls
a == lhs.thing

b == rhs.thing

c == lhs.engines

IsOption(t) == t.tag \in {"Some", "None"}

\* C3: for options, cmp(Some(x), None) is Less, cmp(None, Some(x)) is Greater,
\* cmp(None, None) is Equal and cmp(Some(x), Some(y)) is the ordering of x and y.
C3_OptionOrdering ==
    (last.op = "cmp" /\ IsOption(a)) =>
        /\ (a.tag = "Some" /\ b.tag = "None") => result = "Less"
        /\ (a.tag = "None" /\ b.tag = "Some") => result = "Greater"
        /\ (a.tag = "None" /\ b.tag = "None") => result = "Equal"
        /\ (a.tag = "Some" /\ b.tag = "Some") =>
              result = OrdWithEngines_cmp(a.v, b.v, c)

\* a present value compared with an absent one
C3_Witness ==
    /\ last.op = "cmp"
    /\ a.tag = "Some"
    /\ b.tag = "None"
    /\ result = "Less"

\* C4: for slices s and t, cmp is the ordering of the first pair s[i], t[i] that
\* is not Equal, whatever the lengths; without such a pair it is the comparison
\* of the lengths.
C4_SliceOrdering ==
    (last.op = "cmp" /\ a.tag = "Slice") =>
        LET s == a.v
            t == b.v
            n == IF Len(s) <= Len(t) THEN Len(s) ELSE Len(t)
            E(i) == OrdWithEngines_cmp(s[i], t[i], c)
        IN  \/ \E i \in 1 .. n :
                  /\ E(i) # "Equal"
                  /\ \A j \in 1 .. (i - 1) : E(j) = "Equal"
                  /\ result = E(i)
            \/ /\ \A i \in 1 .. n : E(i) = "Equal"
               /\ result = (IF Len(s) < Len(t) THEN "Less"
                            ELSE IF Len(s) = Len(t) THEN "Equal" ELSE "Greater")

\* the longer slice sorts first, by its second pair, the first being Equal
C4_Witness ==
    /\ last.op = "cmp"
    /\ a.tag = "Slice"
    /\ Len(a.v) > Len(b.v)
    /\ Len(b.v) >= 2
    /\ OrdWithEngines_cmp(a.v[1], b.v[1], c) = "Equal"
    /\ result = "Less"

\* C5: slices are equivalent iff they have the same length and their elements
\* are pairwise equivalent.
C5_SliceEquivalence ==
    (last.op = "eq" /\ a.tag = "Slice") =>
        result = (/\ Len(a.v) = Len(b.v)
                  /\ \A i \in 1 .. Len(a.v) :
                        PartialEqWithEngines_eq(a.v[i], b.v[i], c))

\* a slice against a longer one whose prefix is pairwise equivalent to it
C5_Witness ==
    /\ last.op = "eq"
    /\ a.tag = "Slice"
    /\ Len(a.v) > 0
    /\ Len(a.v) < Len(b.v)
    /\ \A i \in 1 .. Len(a.v) : PartialEqWithEngines_eq(a.v[i], b.v[i], c)
    /\ result = FALSE

\* the element type hashes equivalent elements alike
ElemHashCoherent(ctx) ==
    \A p \in Elem \X Elem :
        impl_T.eq[ctx][p] => impl_T.hash[ctx][p[1]] = impl_T.hash[ctx][p[2]]

\* C6: if the element type hashes equivalent elements alike, then equivalent
\* things of every composite type write the same bytes to the hasher and get
\* the same digest.
C6_HashCoherence ==
    (last.op = "hash" /\ ElemHashCoherent(c) /\ PartialEqWithEngines_eq(a, b, c)) =>
        /\ result.lhs_bytes = result.rhs_bytes
        /\ result.lhs_digest = result.rhs_digest

\* two different composite things that are equivalent, hashed
C6_Witness ==
    /\ last.op = "hash"
    /\ ElemHashCoherent(c)
    /\ a.tag # "T"
    /\ a # b
    /\ PartialEqWithEngines_eq(a, b, c)
    /\ result.lhs_bytes # <<>>

\* the element type orders equivalent elements Equal
ElemOrdCoherent(ctx) ==
    \A p \in Elem \X Elem : impl_T.eq[ctx][p] => impl_T.cmp[ctx][p] = "Equal"

\* C7: if the element type orders equivalent elements Equal, then equivalent
\* things of every composite type are ordered Equal.
C7_OrdCoherence ==
    (last.op = "cmp" /\ ElemOrdCoherent(c) /\ PartialEqWithEngines_eq(a, b, c)) =>
        result = "Equal"

\* two different composite things that are equivalent, ordered
C7_Witness ==
    /\ last.op = "cmp"
    /\ ElemOrdCoherent(c)
    /\ a.tag # "T"
    /\ a # b
    /\ PartialEqWithEngines_eq(a, b, c)

\* C8: a use of wrapped things through a standard trait gives what the
\* contextual protocol gives on the things with the wrappers' aggregate;
\* partial_cmp gives Some of what cmp gives.
C8_WrapperTransparency ==
    /\ last.op = "Display::fmt" => result = DisplayWithEngines_fmt(a, <<>>, c)
    /\ last.op = "Debug::fmt" => result = DebugWithEngines_fmt(a, <<>>, c)
    /\ last.op = "Hash::hash" =>
          result = HashWithEngines_hash(a, BuildHasher_build_hasher(hash_builder), c)
    /\ rhs.engines = lhs.engines =>
          /\ last.op = "PartialEq::eq" => result = PartialEqWithEngines_eq(a, b, c)
          /\ last.op = "Ord::cmp" => result = OrdWithEngines_cmp(a, b, c)
          /\ last.op = "PartialOrd::partial_cmp" =>
                result = Some(OrdWithEngines_cmp(a, b, c))

\* two things wrapped with one aggregate, ordered other than Equal
C8_Witness ==
    /\ last.op = "Ord::cmp"
    /\ rhs.engines = lhs.engines
    /\ a.tag # "T"
    /\ result = "Less"

\* the element type's equivalence is reflexive, symmetric and transitive
ElemEquivalence(ctx) ==
    /\ \A x \in Elem : impl_T.eq[ctx][<<x, x>>]
    /\ \A p \in Elem \X Elem : impl_T.eq[ctx][p] = impl_T.eq[ctx][<<p[2], p[1]>>]
    /\ \A x \in Elem, y \in Elem, z \in Elem :
          impl_T.eq[ctx][<<x, y>>] /\ impl_T.eq[ctx][<<y, z>>] => impl_T.eq[ctx][<<x, z>>]

\* C9: if the element type's equivalence is reflexive, symmetric and transitive,
\* so is the equivalence of every composite type.
C9_EquivalenceLaws ==
    (last.op = "eq" /\ ElemEquivalence(c)) =>
        /\ a = b => result = TRUE
        /\ result = PartialEqWithEngines_eq(b, a, c)
        /\ \A z \in Values(shape) :
              (result = TRUE /\ PartialEqWithEngines_eq(b, z, c))
                  => PartialEqWithEngines_eq(a, z, c)

\* two different composite things found equivalent
C9_Witness ==
    /\ last.op = "eq"
    /\ ElemEquivalence(c)
    /\ a.tag # "T"
    /\ a # b
    /\ result = TRUE

=============================================================================
